---- MODULE Spec2Model ----
(***************************************************************************)
(* Model of scalyr_agent/builtin_monitors/windows_system_metrics.py:       *)
(* the metric registry METRICS, the two gather-function factories          *)
(* (_gather_metric and partion_disk_usage) and SystemMonitor.gather_sample.*)
(*                                                                         *)
(* gather_sample is modelled statement by statement: every resumption of   *)
(* a generator, every provider query and every emit_value call is a step   *)
(* of its own, so that several SystemMonitor instances (threads of the     *)
(* host agent) can interleave on the closure shared through METRICS.       *)
(***************************************************************************)
EXTENDS Integers, Sequences, FiniteSets, TLC

(* ----------------------------- bounds ---------------------------------- *)
\* number of distinct mountpoints the provider can ever report
MaxMounts == 2
\* the provider's counters take the values of clock 0..MaxClock
MaxClock == 1

(* ------------------------- the metric registry ------------------------- *)
None == "None"

\* METRIC(METRIC_CONFIG(...), GATHER_METRIC(method, attribute))
AttrMetric(name, unit, extra, method, attribute) ==
    [metric_name |-> name, unit |-> unit, extra_fields |-> extra,
     gather |-> "attribute", method |-> method, attribute |-> attribute]

\* METRIC(METRIC_CONFIG(...), partion_disk_usage())
UsageMetric(name, unit, extra) ==
    [metric_name |-> name, unit |-> unit, extra_fields |-> extra,
     gather |-> "disk_usage", method |-> "disk_usage", attribute |-> None]

\* extra_fields dictionaries are sets of <<key, value>> pairs
_SYSTEM_CPU_METRICS ==
    << AttrMetric("winsys.cpu", "secs:1.00", {<<"type", "User">>},   "cpu_times", "user"),
       AttrMetric("winsys.cpu", "secs:1.00", {<<"type", "system">>}, "cpu_times", "system"),
       AttrMetric("winsys.cpu", "secs:1.00", {<<"type", "idle">>},   "cpu_times", "idle") >>

_UPTIME_METRICS ==
    << AttrMetric("proc.uptime", "sec", {}, "boot_time", None) >>

_VIRTUAL_MEMORY_METRICS ==
    << AttrMetric("memory.virtual", "bytes", {<<"type", "total">>}, "virtual_memory", "total"),
       AttrMetric("memory.virtual", "bytes", {<<"type", "used">>},  "virtual_memory", "used"),
       AttrMetric("memory.virtual", "bytes", {<<"type", "free">>},  "virtual_memory", "free") >>

_PHYSICAL_MEMORY_METRICS ==
    << AttrMetric("memory.physical", "bytes", {<<"type", "total">>}, "virtual_memory", "total"),
       AttrMetric("memory.physical", "bytes", {<<"type", "used">>},  "virtual_memory", "used"),
       AttrMetric("memory.physical", "bytes", {<<"type", "free">>},  "virtual_memory", "free") >>

_NETWORK_IO_METRICS ==
    << AttrMetric("network.io.bytes", "bytes",
                  {<<"direction", "sent">>, <<"iface", "">>}, "network_io_counters", "bytes_sent"),
       AttrMetric("network.io.bytes", "bytes",
                  {<<"direction", "recv">>, <<"iface", "">>}, "network_io_counters", "bytes_recv"),
       AttrMetric("network.io.packets", "packets",
                  {<<"direction", "sent">>, <<"iface", "">>}, "network_io_counters", "packets_sent"),
       AttrMetric("network.io.packets", "packets",
                  {<<"direction", "recv">>, <<"iface", "">>}, "network_io_counters", "packets_recv") >>

_DISK_IO_METRICS ==
    << AttrMetric("disk.io", "bytes", {<<"type", "read">>},  "disk_io_counters", "read_bytes"),
       AttrMetric("disk.io", "bytes", {<<"type", "write">>}, "disk_io_counters", "write_bytes"),
       AttrMetric("disk.io", "count", {<<"type", "read">>},  "disk_io_counters", "read_count"),
       AttrMetric("disk.io", "count", {<<"type", "write">>}, "disk_io_counters", "write_count") >>

_DISK_USAGE_METRICS ==
    << UsageMetric("disk.usage", "percent", {}) >>

METRICS ==
    _SYSTEM_CPU_METRICS \o _UPTIME_METRICS \o _VIRTUAL_MEMORY_METRICS
      \o _PHYSICAL_MEMORY_METRICS \o _NETWORK_IO_METRICS \o _DISK_IO_METRICS
      \o _DISK_USAGE_METRICS

NumMetrics == Len(METRICS)

(* --------------------- the OS-metrics provider (psutil) ---------------- *)
\* Mountpoints are numbered.
Mounts == 1..MaxMounts

\* the lists of partitions a machine with these mountpoints can report: no
\* mountpoint twice, in any order
PartitionLists(mounts) ==
    UNION {{p \in [1..n -> mounts] : \A i, j \in 1..n : i # j => p[i] # p[j]} :
             n \in 0..Cardinality(mounts)}

\* A provider state: the clock its counters have reached and the
\* partitions it currently reports.
ProviderStates(mounts, clocks) ==
    [clock : clocks,
     partitions : PartitionLists(mounts)]

\* The value psutil.<method>() returns at a given clock: a structure of
\* named counters, or a bare number for boot_time.
MethodResult(method, clock) ==
    CASE method = "cpu_times" ->
           [user |-> 110 + clock, system |-> 120 + clock, idle |-> 130 + clock]
      [] method = "boot_time" -> 200
      [] method = "virtual_memory" ->
           [total |-> 310, used |-> 320 + clock, free |-> 330 - clock]
      [] method = "network_io_counters" ->
           [bytes_sent |-> 410 + clock, bytes_recv |-> 420 + clock,
            packets_sent |-> 430 + clock, packets_recv |-> 440 + clock]
      [] method = "disk_io_counters" ->
           [read_bytes |-> 510 + clock, write_bytes |-> 520 + clock,
            read_count |-> 530 + clock, write_count |-> 540 + clock]

\* (mutant) the counters are read once, when the registry is built
GatherValueAtImport(method, attribute, clock) ==
    IF attribute # None
      THEN MethodResult(method, 0)[attribute]
      ELSE MethodResult(method, 0)

\* value = methodcaller(method)(psutil); if attribute: value = attrgetter(attribute)(value)
GatherValue(method, attribute, clock) ==
    IF attribute # None
      THEN MethodResult(method, clock)[attribute]
      ELSE MethodResult(method, clock)

\* psutil.disk_usage(mountpoint).percent, in tenths of a percent
DiskPercent(mountpoint, clock) == (137 * mountpoint + 251 * clock) % 1000

\* "{}={}%".format(mountpoint, diskusage.percent): percent is a float with
\* one decimal
FormatUsage(mountpoint, tenths) ==
    "M" \o ToString(mountpoint) \o "=" \o ToString(tenths \div 10)
        \o "." \o ToString(tenths % 10) \o "%"

\* The exceptions a provider query, an attribute lookup or emit_value can
\* raise: OSError, another Exception, and one that is no Exception
ExcKinds == {"OSError", "AttributeError", "SystemExit"}

\* (mutant) "except Exception:", which lets SystemExit through
CatchesExceptionOnly(kind) == kind # "SystemExit"

\* the bare "except:" of gather_sample
Catches(kind) == TRUE

\* (mutant) no try statement around disk_usage
CatchesNothing(kind) == FALSE

\* "except OSError" around disk_usage
CatchesOSError(kind) == kind = "OSError"

(* ------------------------------- state --------------------------------- *)
VARIABLES
    host,                    \* the host agent: which SystemMonitor instances
                             \* it runs and what its provider can report
    psutil,                  \* the provider's current state
    mountpoints_initialized, \* partion_disk_usage: mountpoints_initialized[0]
    mountpoints,             \* partion_disk_usage: the cached mountpoint list
    pc,                      \* per instance: where gather_sample stands
    idx,                     \* per instance: index into METRICS
    metric_value,            \* per instance: the value the generator yielded
    plist,                   \* per instance: what is left of disk_partitions()
    pos,                     \* per instance: list iterator over mountpoints
    exc,                     \* per instance: the exception being raised
    result,                  \* per instance: how the last call ended
    process,                 \* per instance: self.__process
    emitted,                 \* per instance: emit_value calls of this tick
    yielded,                 \* history: <<idx, value>> yielded in this tick
    exhausted,               \* history: entries whose generator ran to its end
    queried,                 \* history: mountpoints given to disk_usage
    failure,                 \* history: where and with what this tick raised
    enumCalls,               \* history: what disk_partitions calls did
    events                   \* history: provider calls and emit_value calls of
                             \* this tick, in the order they were made

shared == <<psutil, mountpoints_initialized, mountpoints>>
locals == <<pc, idx, metric_value, plist, pos, exc, result, process, emitted>>
history == <<yielded, exhausted, queried, failure, enumCalls, events>>
vars == <<host, shared, locals, history>>

Unset == "unset"
NoExc == "none"
NoFailure == [at |-> 0, kind |-> NoExc, where |-> "nowhere"]

\* the host of the sequential claims: one SystemMonitor instance
OneMonitorHost ==
    [monitors |-> {1}, mounts |-> Mounts, clocks |-> 0..MaxClock,
     faults |-> {"dispatch", "emit", "enumerate", "usage"}]

\* a host whose configuration names the module twice: two instances, each
\* a thread of its own, over one module-level METRICS
\* (a machine with at most one drive, whose provider fails only in its disk
\* queries)
TwoMonitorHost ==
    [monitors |-> {1, 2}, mounts |-> {1}, clocks |-> {0},
     faults |-> {"enumerate", "usage"}]

\* module import (METRICS is built, partion_disk_usage() is called once)
\* and SystemMonitor.__init__
InitOn(h) ==
    /\ host = h
    /\ psutil \in ProviderStates(h.mounts, h.clocks)
    /\ mountpoints_initialized = 0
    /\ mountpoints = <<>>
    /\ pc = [t \in h.monitors |-> "idle"]
    /\ idx = [t \in h.monitors |-> 0]
    /\ metric_value = [t \in h.monitors |-> None]
    /\ plist = [t \in h.monitors |-> <<>>]
    /\ pos = [t \in h.monitors |-> 0]
    /\ exc = [t \in h.monitors |-> NoExc]
    /\ result = [t \in h.monitors |-> "none"]
    /\ process = [t \in h.monitors |-> Unset]
    /\ emitted = [t \in h.monitors |-> <<>>]
    /\ yielded = [t \in h.monitors |-> <<>>]
    /\ exhausted = [t \in h.monitors |-> {}]
    /\ queried = [t \in h.monitors |-> <<>>]
    /\ events = [t \in h.monitors |-> <<>>]
    /\ failure = [t \in h.monitors |-> NoFailure]
    /\ enumCalls = [failed |-> FALSE, afterInit |-> FALSE, last |-> <<>>]

Init == InitOn(OneMonitorHost)

InitShared == InitOn(TwoMonitorHost)

(* ------------------------------ gather_sample -------------------------- *)
\* a call of psutil.<method>, for entry i (and a mountpoint, 0 if none)
ProviderCall(i, method, mount, outcome) ==
    [kind |-> "query", idx |-> i, method |-> method, mount |-> mount,
     outcome |-> outcome]

\* a call of emit_value that returned, for entry i
EmitCall(i) ==
    [kind |-> "emit", idx |-> i, method |-> "emit_value", mount |-> 0,
     outcome |-> "ok"]

\* (mutant) the result of a provider method is kept for the tick: an entry
\* whose method was called already makes no call
ProviderCallsMemoised(t, i) ==
    IF \E k \in 1..Len(events[t]) :
         events[t][k].kind = "query" /\ events[t][k].method = METRICS[i].method
      THEN <<>>
      ELSE <<METRICS[i].method>>

\* the provider methods one invocation of the attribute generator of entry i
\* calls: metric = methodcaller(method); value = metric(psutil)
ProviderCalls(t, i) == <<METRICS[i].method>>

\* what the call instance t is about to make can do: answer, or raise
Outcomes(t) ==
    {"ok"} \cup (IF pc[t] \in host.faults THEN ExcKinds ELSE {})

\* an exception leaves the frame for the handler of gather_sample
Raise(t, kind) ==
    /\ exc' = [exc EXCEPT ![t] = kind]
    /\ failure' = [failure EXCEPT
                     ![t] = [at |-> idx[t], kind |-> kind, where |-> pc[t]]]
    /\ pc' = [pc EXCEPT ![t] = "except"]

\* the entry the outer for loop takes after entry i, 0 when METRICS is used up
NextIndex(i) == IF i < NumMetrics THEN i + 1 ELSE 0

\* the generator of entry idx[t] is used up: the outer loop goes on to the
\* next entry, or gather_sample returns
NextMetric(t) ==
    /\ exhausted' = [exhausted EXCEPT ![t] = @ \cup {idx[t]}]
    /\ idx' = [idx EXCEPT ![t] = NextIndex(idx[t])]
    /\ pos' = [pos EXCEPT ![t] = 0]
    /\ IF NextIndex(idx[t]) = 0
         THEN /\ pc' = [pc EXCEPT ![t] = "idle"]
              /\ result' = [result EXCEPT ![t] = "returned"]
              /\ metric_value' = [metric_value EXCEPT ![t] = None]
         ELSE /\ pc' = [pc EXCEPT ![t] = "dispatch"]
              /\ UNCHANGED <<result, metric_value>>

\* Between two ticks the machine changes: counters advance, partitions
\* come and go.
ProviderChange ==
    psutil' \in ProviderStates(host.mounts, host.clocks)

\* the host calls gather_sample: try, and the first entry of METRICS
GatherSample(t) ==
    /\ pc[t] = "idle"
    /\ ProviderChange
    /\ pc' = [pc EXCEPT ![t] = "dispatch"]
    /\ idx' = [idx EXCEPT ![t] = 1]
    /\ result' = [result EXCEPT ![t] = "running"]
    /\ exc' = [exc EXCEPT ![t] = NoExc]
    /\ emitted' = [emitted EXCEPT ![t] = <<>>]
    /\ yielded' = [yielded EXCEPT ![t] = <<>>]
    /\ exhausted' = [exhausted EXCEPT ![t] = {}]
    /\ queried' = [queried EXCEPT ![t] = <<>>]
    /\ events' = [events EXCEPT ![t] = <<>>]
    /\ failure' = [failure EXCEPT ![t] = NoFailure]
    /\ UNCHANGED <<host, mountpoints_initialized, mountpoints, metric_value,
                   plist, pos, process, enumCalls>>

\* metric.dispatch() of an attribute entry, up to its yield
GatherAttribute(t) ==
    /\ pc[t] = "dispatch"
    /\ METRICS[idx[t]].gather = "attribute"
    /\ \E outcome \in Outcomes(t) :
         /\ LET calls == ProviderCalls(t, idx[t]) IN
            events' = [events EXCEPT
                         ![t] = @ \o [k \in 1..Len(calls) |->
                                        ProviderCall(idx[t], calls[k], 0, outcome)]]
         /\ IF outcome = "ok"
           THEN LET v == GatherValue(METRICS[idx[t]].method,
                                     METRICS[idx[t]].attribute, psutil.clock)
                IN  /\ metric_value' = [metric_value EXCEPT ![t] = v]
                    /\ yielded' = [yielded EXCEPT ![t] = Append(@, <<idx[t], v>>)]
                    /\ pc' = [pc EXCEPT ![t] = "emit"]
                    /\ UNCHANGED <<exc, failure>>
           ELSE /\ Raise(t, outcome)
                /\ UNCHANGED <<metric_value, yielded>>
    /\ UNCHANGED <<host, shared, idx, plist, pos, result, process, emitted,
                   exhausted, queried, enumCalls>>

\* (mutant) the configuration is taken from the first entry of METRICS, not
\* from the entry being sampled
EmissionOfFirstEntry(i, v) ==
    [idx |-> i, metric_name |-> METRICS[1].metric_name, value |-> v,
     extra_fields |-> METRICS[1].extra_fields]

\* the record self._logger.emit_value(metric_name, metric_value, extra_fields=...)
\* writes for entry i
Emission(i, v) ==
    [idx |-> i, metric_name |-> METRICS[i].metric_name, value |-> v,
     extra_fields |-> METRICS[i].extra_fields]

\* emit_value, then the generator is resumed: an attribute generator ends,
\* the disk usage generator goes on with the next cached mountpoint
EmitValue(t) ==
    /\ pc[t] = "emit"
    /\ \E outcome \in Outcomes(t) :
         IF outcome = "ok"
           THEN /\ emitted' = [emitted EXCEPT
                                 ![t] = Append(@, Emission(idx[t], metric_value[t]))]
                /\ events' = [events EXCEPT ![t] = Append(@, EmitCall(idx[t]))]
                /\ IF METRICS[idx[t]].gather = "attribute"
                     THEN NextMetric(t)
                     ELSE /\ pc' = [pc EXCEPT ![t] = "usage"]
                          /\ pos' = [pos EXCEPT ![t] = @ + 1]
                          /\ UNCHANGED <<idx, result, exhausted, metric_value>>
                /\ UNCHANGED <<exc, failure>>
           ELSE /\ Raise(t, outcome)
                /\ UNCHANGED <<emitted, idx, result, exhausted, pos, metric_value,
                               events>>
    /\ UNCHANGED <<host, shared, plist, process, yielded, queried, enumCalls>>

\* (mutant) the try statement stands inside the for loop: after the handler
\* the loop goes on with the next entry
HandleExceptionInsideLoop(t) ==
    /\ pc[t] = "except"
    /\ process' = [process EXCEPT ![t] = None]
    /\ exc' = [exc EXCEPT ![t] = NoExc]
    /\ idx' = [idx EXCEPT ![t] = NextIndex(idx[t])]
    /\ IF NextIndex(idx[t]) = 0
         THEN /\ pc' = [pc EXCEPT ![t] = "idle"]
              /\ result' = [result EXCEPT ![t] = "returned"]
         ELSE /\ pc' = [pc EXCEPT ![t] = "dispatch"]
              /\ UNCHANGED result
    /\ metric_value' = [metric_value EXCEPT ![t] = None]
    /\ plist' = [plist EXCEPT ![t] = <<>>]
    /\ pos' = [pos EXCEPT ![t] = 0]
    /\ UNCHANGED <<host, shared, emitted, history>>

\* except: self.__process = None; print; traceback.print_exc()
HandleException(t) ==
    /\ pc[t] = "except"
    /\ process' = [process EXCEPT ![t] = None]
    /\ result' = [result EXCEPT
                    ![t] = IF Catches(exc[t]) THEN "returned" ELSE "raised"]
    /\ pc' = [pc EXCEPT ![t] = "idle"]
    \* the frames of gather_sample and of the generator are gone
    /\ exc' = [exc EXCEPT ![t] = NoExc]
    /\ idx' = [idx EXCEPT ![t] = 0]
    /\ metric_value' = [metric_value EXCEPT ![t] = None]
    /\ plist' = [plist EXCEPT ![t] = <<>>]
    /\ pos' = [pos EXCEPT ![t] = 0]
    /\ UNCHANGED <<host, shared, emitted, history>>

(* ------------------- partion_disk_usage.gather_metric ------------------ *)
\* (mutant) the flag is not consulted
NeedsEnumerationAlways(flag) == TRUE

\* if mountpoints_initialized[0] == 0:
NeedsEnumeration(flag) == flag = 0

\* (mutant) the flag is set before the enumeration, not after it
DiskUsageEnterSetsFlag(t) ==
    /\ pc[t] = "dispatch"
    /\ METRICS[idx[t]].gather = "disk_usage"
    /\ IF NeedsEnumeration(mountpoints_initialized)
         THEN /\ pc' = [pc EXCEPT ![t] = "enumerate"]
              /\ mountpoints_initialized' = 1
              /\ UNCHANGED pos
         ELSE /\ pc' = [pc EXCEPT ![t] = "usage"]
              /\ pos' = [pos EXCEPT ![t] = 1]
              /\ UNCHANGED mountpoints_initialized
    /\ UNCHANGED <<host, psutil, mountpoints, idx, metric_value, plist, exc,
                   result, process, emitted, history>>

\* metric.dispatch() of the disk usage entry: the generator starts and tests
\* the flag
DiskUsageEnter(t) ==
    /\ pc[t] = "dispatch"
    /\ METRICS[idx[t]].gather = "disk_usage"
    /\ IF NeedsEnumeration(mountpoints_initialized)
         THEN /\ pc' = [pc EXCEPT ![t] = "enumerate"]
              /\ UNCHANGED pos
         ELSE /\ pc' = [pc EXCEPT ![t] = "usage"]
              /\ pos' = [pos EXCEPT ![t] = 1]
    /\ UNCHANGED <<host, shared, idx, metric_value, plist, exc, result, process,
                   emitted, history>>

\* psutil.disk_partitions(): the list of partitions, or an exception (the
\* call returns a list of tuples: iterating it and reading p.mountpoint do
\* not raise)
DiskPartitions(t) ==
    /\ pc[t] = "enumerate"
    /\ \E outcome \in Outcomes(t) :
         /\ events' = [events EXCEPT
                         ![t] = Append(@, ProviderCall(idx[t], "disk_partitions",
                                                       0, outcome))]
         /\ IF outcome = "ok"
           THEN /\ plist' = [plist EXCEPT ![t] = psutil.partitions]
                /\ pc' = [pc EXCEPT ![t] = "append"]
                /\ enumCalls' = [enumCalls EXCEPT
                                   !.last = psutil.partitions,
                                   !.afterInit = @ \/ mountpoints_initialized = 1]
                /\ UNCHANGED <<exc, failure>>
           ELSE /\ Raise(t, outcome)
                /\ enumCalls' = [enumCalls EXCEPT
                                   !.failed = TRUE,
                                   !.afterInit = @ \/ mountpoints_initialized = 1]
                /\ UNCHANGED plist
    /\ UNCHANGED <<host, shared, idx, metric_value, pos, result, process,
                   emitted, yielded, exhausted, queried>>

\* for p in ...: mountpoints.append(p.mountpoint)
AppendMountpoint(t) ==
    /\ pc[t] = "append"
    /\ plist[t] # <<>>
    /\ mountpoints' = Append(mountpoints, Head(plist[t]))
    /\ plist' = [plist EXCEPT ![t] = Tail(@)]
    /\ UNCHANGED <<host, psutil, mountpoints_initialized, pc, idx, metric_value,
                   pos, exc, result, process, emitted, history>>

\* the for loop is over: mountpoints_initialized[0] = 1, and the usage loop
\* starts
SetInitialized(t) ==
    /\ pc[t] = "append"
    /\ plist[t] = <<>>
    /\ mountpoints_initialized' = 1
    /\ pc' = [pc EXCEPT ![t] = "usage"]
    /\ pos' = [pos EXCEPT ![t] = 1]
    /\ UNCHANGED <<host, psutil, mountpoints, idx, metric_value, plist, exc,
                   result, process, emitted, history>>

\* (mutant) the failing mountpoint takes the next one with it
SkipMountpointAndNext(p) == p + 2

\* the position of the list iterator after a mountpoint was skipped
SkipMountpoint(p) == p + 1

\* for mountpoint in mountpoints: try: diskusage = psutil.disk_usage(mountpoint);
\* yield ... except OSError: pass
DiskUsage(t) ==
    /\ pc[t] = "usage"
    /\ pos[t] <= Len(mountpoints)
    /\ LET m == mountpoints[pos[t]] IN
       /\ \E outcome \in Outcomes(t) :
            /\ queried' = [queried EXCEPT ![t] = Append(@, <<m, outcome>>)]
            /\ events' = [events EXCEPT
                            ![t] = Append(@, ProviderCall(idx[t], "disk_usage",
                                                          m, outcome))]
            /\ IF outcome = "ok"
                 THEN LET v == FormatUsage(m, DiskPercent(m, psutil.clock))
                      IN  /\ metric_value' = [metric_value EXCEPT ![t] = v]
                          /\ yielded' = [yielded EXCEPT ![t] = Append(@, <<idx[t], v>>)]
                          /\ pc' = [pc EXCEPT ![t] = "emit"]
                          /\ UNCHANGED <<pos, exc, failure>>
                 ELSE IF CatchesOSError(outcome)
                   THEN /\ pos' = [pos EXCEPT ![t] = SkipMountpoint(@)]
                        /\ UNCHANGED <<metric_value, yielded, pc, exc, failure>>
                   ELSE /\ Raise(t, outcome)
                        /\ UNCHANGED <<metric_value, yielded, pos>>
    /\ UNCHANGED <<host, shared, idx, plist, result, process, emitted,
                   exhausted, enumCalls>>

\* the list iterator is used up: the generator ends
DiskUsageDone(t) ==
    /\ pc[t] = "usage"
    /\ pos[t] > Len(mountpoints)
    /\ NextMetric(t)
    /\ UNCHANGED <<host, shared, plist, exc, process, emitted, yielded,
                   queried, failure, enumCalls, events>>

(* ------------------------------- the system ---------------------------- *)
Next ==
    \/ \E t \in host.monitors : GatherSample(t)
    \/ \E t \in host.monitors : GatherAttribute(t)
    \/ \E t \in host.monitors : EmitValue(t)
    \/ \E t \in host.monitors : DiskUsageEnter(t)
    \/ \E t \in host.monitors : DiskPartitions(t)
    \/ \E t \in host.monitors : AppendMountpoint(t)
    \/ \E t \in host.monitors : SetInitialized(t)
    \/ \E t \in host.monitors : DiskUsage(t)
    \/ \E t \in host.monitors : DiskUsageDone(t)
    \/ \E t \in host.monitors : HandleException(t)

\* one SystemMonitor instance: ticks follow one another
Spec == Init /\ [][Next]_vars

\* two SystemMonitor instances sharing METRICS: ticks may overlap
SpecShared == InitShared /\ [][Next]_vars

(* ------------------------------- properties ---------------------------- *)
\* the last gather_sample call of instance t returned and nothing raised in it
Completed(t) ==
    /\ pc[t] = "idle"
    /\ result[t] = "returned"
    /\ failure[t].at = 0

\* the last gather_sample call of instance t ended in the handler
Failed(t) ==
    /\ pc[t] = "idle"
    /\ failure[t].at # 0

\* the values entry i yielded in this tick of instance t, in yield order
YieldedBy(t, i) ==
    LET ofEntry(y) == y[1] = i
        ys == SelectSeq(yielded[t], ofEntry)
    IN  [k \in 1..Len(ys) |-> ys[k][2]]

\* the mountpoints given to disk_usage in this tick of instance t, in order
QueriedMounts(t) == [k \in 1..Len(queried[t]) |-> queried[t][k][1]]

\* C1: in a gather_sample call in which nothing raises, METRICS is walked
\* from its first entry to its last and every value an entry's dispatch
\* yields is handed to emit_value exactly once, in yield order, with that
\* entry's metric_name and extra_fields; nothing else is emitted.
C1_EmitsEachYieldedValueOnce ==
    \A t \in host.monitors :
      /\ Len(emitted[t]) <= Len(yielded[t])
      /\ \A k \in 1..Len(emitted[t]) :
           LET i == yielded[t][k][1] IN
           /\ emitted[t][k].metric_name = METRICS[i].metric_name
           /\ emitted[t][k].extra_fields = METRICS[i].extra_fields
           /\ emitted[t][k].value = yielded[t][k][2]
           /\ emitted[t][k].idx = i
      /\ Completed(t) =>
           /\ Len(emitted[t]) = Len(yielded[t])
           /\ exhausted[t] = 1..NumMetrics
           /\ \A k \in 1..(Len(yielded[t]) - 1) :
                yielded[t][k][1] <= yielded[t][k + 1][1]
           /\ \A i \in 1..NumMetrics :
                METRICS[i].gather = "attribute" => Len(YieldedBy(t, i)) = 1

\* a call that completed and in which the disk usage entry yielded twice
C1_Witness ==
    \E t \in host.monitors :
      /\ Completed(t)
      /\ Len(emitted[t]) = NumMetrics + 1
      /\ emitted[t][NumMetrics + 1].metric_name = "disk.usage"

\* C2: gather_sample never lets an exception out: whatever a gather function
\* or emit_value raises, the call returns normally and the instance is ready
\* for its next tick.
C2_NeverPropagates ==
    \A t \in host.monitors :
      /\ result[t] # "raised"
      /\ Failed(t) => /\ result[t] = "returned"
                      /\ exc[t] = NoExc
                      /\ ENABLED GatherSample(t)

\* a call in which SystemExit was raised has returned
C2_Witness ==
    \E t \in host.monitors :
      /\ Failed(t)
      /\ failure[t].kind = "SystemExit"
      /\ result[t] = "returned"

\* C3: with ticks following one another, once an invocation has completed
\* the enumeration no invocation calls disk_partitions again, and the cached
\* mountpoint list keeps its elements and their order, whatever the provider
\* reports later.
C3_EnumeratesOnce ==
    /\ [](~enumCalls.afterInit)
    /\ [](mountpoints_initialized = 1 =>
            \A t \in host.monitors : pc[t] \notin {"enumerate", "append"})
    /\ [][mountpoints_initialized = 1 =>
            /\ mountpoints' = mountpoints
            /\ mountpoints_initialized' = 1]_vars

\* a later tick has completed on a provider whose partitions are no longer
\* the cached ones
C3_Witness ==
    \E t \in host.monitors :
      /\ Completed(t)
      /\ mountpoints_initialized = 1
      /\ Len(mountpoints) = 1
      /\ Len(psutil.partitions) = 2
      /\ QueriedMounts(t) = mountpoints

\* the number of disk_usage calls of this tick of instance t that answered
AnsweredQueries(t) ==
    Cardinality({k \in 1..Len(queried[t]) : queried[t][k][2] = "ok"})

\* C4 as stated: every invocation of a gather function that runs to its end
\* has yielded at least one value.
C4_YieldsOneOrMore ==
    \A t \in host.monitors :
      \A i \in exhausted[t] : Len(YieldedBy(t, i)) >= 1

\* C4 as amended: an attribute gather function that runs to its end has
\* yielded exactly one value; the disk usage gather function has queried
\* every cached mountpoint and yielded one value for each query that
\* answered, which may be none.
C4_YieldCounts ==
    \A t \in host.monitors :
      \A i \in exhausted[t] :
        IF METRICS[i].gather = "attribute"
          THEN Len(YieldedBy(t, i)) = 1
          ELSE /\ QueriedMounts(t) = mountpoints
               /\ Len(YieldedBy(t, i)) = AnsweredQueries(t)

\* the disk usage generator ran to its end over a cache of two mountpoints
\* and yielded nothing
C4_Witness ==
    \E t \in host.monitors :
      /\ NumMetrics \in exhausted[t]
      /\ Len(mountpoints) = 2
      /\ YieldedBy(t, NumMetrics) = <<>>

\* the current value of attribute entry i, as emit_value receives it
CurrentAttribute(i, clock) ==
    LET r == MethodResult(METRICS[i].method, clock) IN
    [idx |-> i, metric_name |-> METRICS[i].metric_name,
     value |-> IF METRICS[i].attribute = None THEN r ELSE r[METRICS[i].attribute],
     extra_fields |-> METRICS[i].extra_fields]

\* the current usage of the queried mountpoints that answered, as emit_value
\* receives it for entry i
CurrentUsage(t, i, clock) ==
    LET answered(q) == q[2] = "ok"
        qs == SelectSeq(queried[t], answered)
    IN  [k \in 1..Len(qs) |->
           [idx |-> i, metric_name |-> METRICS[i].metric_name,
            value |-> FormatUsage(qs[k][1], DiskPercent(qs[k][1], clock)),
            extra_fields |-> METRICS[i].extra_fields]]

\* the emissions of a whole tick of instance t, from entry i on
RECURSIVE CurrentEmissions(_, _, _)
CurrentEmissions(t, i, clock) ==
    IF i > NumMetrics THEN <<>>
    ELSE (IF METRICS[i].gather = "attribute"
            THEN <<CurrentAttribute(i, clock)>>
            ELSE CurrentUsage(t, i, clock))
         \o CurrentEmissions(t, i + 1, clock)

\* C5 as stated: nothing is carried from tick to tick, the emissions of a
\* call depend on the provider's state during the call alone.  The first
\* call reports the partitions the provider has, so a function of the
\* provider's state alone reports them in every call.
C5_ProviderAlone ==
    \A t \in host.monitors :
      Completed(t) =>
        /\ emitted[t] = CurrentEmissions(t, 1, psutil.clock)
        /\ QueriedMounts(t) = psutil.partitions

\* C5 as amended: the emissions of a call depend on the provider's state
\* during the call and on the cached mountpoint list: the attribute values
\* are the provider's current values, the disk.usage values are the current
\* usage of the cached mountpoints, whatever partitions the provider has now.
C5_ProviderAndCache ==
    \A t \in host.monitors :
      Completed(t) =>
        /\ emitted[t] = CurrentEmissions(t, 1, psutil.clock)
        /\ QueriedMounts(t) = mountpoints

\* a call completed at clock 1 and reported a mountpoint the provider no
\* longer has
C5_Witness ==
    \E t \in host.monitors :
      /\ Completed(t)
      /\ psutil.clock = 1
      /\ psutil.partitions = <<>>
      /\ Len(emitted[t]) > NumMetrics - 1

\* C6: an emitted (metric_name, extra_fields) pair identifies one registry
\* entry: the entries of METRICS that carry the pair have one unit and gather
\* one provider quantity.
C6_PairIdentifiesEntry ==
    \A t \in host.monitors :
      \A k \in 1..Len(emitted[t]) :
        \A i, j \in 1..NumMetrics :
          ( /\ METRICS[i].metric_name = emitted[t][k].metric_name
            /\ METRICS[i].extra_fields = emitted[t][k].extra_fields
            /\ METRICS[j].metric_name = emitted[t][k].metric_name
            /\ METRICS[j].extra_fields = emitted[t][k].extra_fields )
          => /\ METRICS[i].unit = METRICS[j].unit
             /\ METRICS[i].method = METRICS[j].method
             /\ METRICS[i].attribute = METRICS[j].attribute

\* the values of the emissions of this tick of instance t, in order
EmittedValues(t) == [k \in 1..Len(emitted[t]) |-> emitted[t][k].value]

\* the values yielded in this tick of instance t, in order
YieldedValues(t) == [k \in 1..Len(yielded[t]) |-> yielded[t][k][2]]

\* C7: when a gather function or emit_value raises at entry i the tick stops
\* there: what was emitted before stays emitted, nothing of a later entry is
\* emitted, the handler leaves the cached mountpoint list and its flag as
\* they are, and the next tick starts again at the first entry.
C7_TickStopsAtFailure ==
    /\ [](\A t \in host.monitors :
            (Failed(t) \/ pc[t] = "except") =>
              LET i == failure[t].at
                  pending == IF failure[t].where = "emit" THEN 1 ELSE 0
              IN  /\ \A k \in 1..Len(emitted[t]) : emitted[t][k].idx <= i
                  /\ exhausted[t] = 1..(i - 1)
                  /\ Len(emitted[t]) = Len(yielded[t]) - pending
                  /\ EmittedValues(t) = SubSeq(YieldedValues(t), 1, Len(emitted[t])))
    /\ [][\A t \in host.monitors :
            pc[t] = "except" =>
              /\ pc'[t] = "idle"
              /\ emitted'[t] = emitted[t]
              /\ mountpoints' = mountpoints
              /\ mountpoints_initialized' = mountpoints_initialized]_vars
    /\ [][\A t \in host.monitors :
            (pc[t] = "idle" /\ pc'[t] # "idle") =>
              /\ pc'[t] = "dispatch"
              /\ idx'[t] = 1
              /\ emitted'[t] = <<>>]_vars

\* the second disk_usage call of a tick raised: the attribute values and the
\* first usage value are emitted, the call is over
C7_Witness ==
    \E t \in host.monitors :
      /\ Failed(t)
      /\ failure[t].at = NumMetrics
      /\ failure[t].where = "usage"
      /\ Len(emitted[t]) = NumMetrics

\* C8: an OSError of disk_usage(m) skips m alone: the invocation does not
\* raise, it yields "<mountpoint>=<percent>%" for every other cached
\* mountpoint whose disk_usage answers, in cached order, and m stays in the
\* cache, so that every later tick queries it again.
C8_OSErrorSkipsOneMountpoint ==
    /\ [](\A t \in host.monitors :
            /\ failure[t].where = "usage" => failure[t].kind # "OSError"
            /\ NumMetrics \in exhausted[t] =>
                 /\ QueriedMounts(t) = mountpoints
                 /\ LET answered(q) == q[2] = "ok"
                        qs == SelectSeq(queried[t], answered)
                    IN  YieldedBy(t, NumMetrics) =
                          [k \in 1..Len(qs) |->
                             FormatUsage(qs[k][1], DiskPercent(qs[k][1], psutil.clock))])
    /\ [][\A t \in host.monitors :
            pc[t] = "usage" => mountpoints' = mountpoints]_vars

\* disk_usage failed with OSError for the first cached mountpoint and the
\* second one was reported
C8_Witness ==
    \E t \in host.monitors :
      /\ NumMetrics \in exhausted[t]
      /\ queried[t] = << <<1, "OSError">>, <<2, "ok">> >>
      /\ Len(emitted[t]) = NumMetrics

\* C9: the cached mountpoint list never holds an entry twice, however the
\* gather_sample calls of several instances interleave, and no tick emits
\* disk.usage twice for one mountpoint.
C9_NoDuplicateMountpoints ==
    /\ \A i, j \in 1..Len(mountpoints) :
         i # j => mountpoints[i] # mountpoints[j]
    /\ \A t \in host.monitors :
         \A i, j \in 1..Len(queried[t]) :
           i # j => queried[t][i][1] # queried[t][j][1]

YieldingCall(e) ==
    /\ e.kind = "query"
    /\ e.method # "disk_partitions"
    /\ e.outcome = "ok"

\* the provider calls made for entry i in this tick of instance t
CallsFor(t, i) ==
    {k \in 1..Len(events[t]) : events[t][k].kind = "query" /\ events[t][k].idx = i}

\* the number of emit_value calls of this tick of instance t for the entries
\* before entry i
EmitsBefore(t, i) ==
    Cardinality({k \in 1..Len(events[t]) :
                   events[t][k].kind = "emit" /\ events[t][k].idx < i})

\* the number of values the entries before entry i yielded in this tick
YieldsBefore(t, i) ==
    Cardinality({k \in 1..Len(yielded[t]) : yielded[t][k][1] < i})

\* the cached mountpoint the latest disk_usage call of instance t is due to
\* ask about: the one after those asked about so far
DueMountpoint(t) ==
    mountpoints[Cardinality({k \in 1..Len(events[t]) :
                               events[t][k].method = "disk_usage"})]

\* C11: values are gathered one at a time, between the emissions: the
\* provider is called for an entry only when every value of the entries
\* before it has been emitted, every attribute entry makes its own call of
\* its provider method, and disk_usage is called for a cached mountpoint
\* only when the value of the one before it has been emitted.  The order is
\* stated of the latest call, at every moment of a tick.
C11_GatheredLazily ==
    \A t \in host.monitors :
      LET e == events[t]
          n == Len(e)
      IN
      /\ (n >= 1 /\ e[n].kind = "query") =>
           /\ EmitsBefore(t, e[n].idx) = YieldsBefore(t, e[n].idx)
           /\ e[n].method = "disk_usage" => e[n].mount = DueMountpoint(t)
      /\ n >= 2 =>
           /\ e[n - 1].idx <= e[n].idx
           /\ YieldingCall(e[n - 1]) =>
                e[n].kind = "emit" /\ e[n].idx = e[n - 1].idx
      /\ (n >= 1 /\ e[n].kind = "emit") =>
           /\ n >= 2
           /\ YieldingCall(e[n - 1])
           /\ e[n - 1].idx = e[n].idx
      /\ \A i \in exhausted[t] :
           METRICS[i].gather = "attribute" =>
             /\ Cardinality(CallsFor(t, i)) = 1
             /\ \A k \in CallsFor(t, i) : e[k].method = METRICS[i].method

\* a tick completed in which virtual_memory was called six times, once for
\* each entry that reads it, and both cached mountpoints were reported
C11_Witness ==
    \E t \in host.monitors :
      /\ Completed(t)
      /\ Cardinality({k \in 1..Len(events[t]) :
                        events[t][k].method = "virtual_memory"}) = 6
      /\ Len(emitted[t]) = NumMetrics + 1
      /\ events[t][Len(events[t]) - 2].kind = "emit"
      /\ events[t][Len(events[t]) - 1].method = "disk_usage"

====
